---- MODULE Spec2Model ----
(***************************************************************************)
(* The quote-request handler of piano-move-team (api/quote.js): the        *)
(* submission pipeline of the PDF revision (validate, decode attachments,  *)
(* derive identifiers, render the job sheet, upload, insert, notify the    *)
(* business, acknowledge the customer) and of the earlier email-only       *)
(* revision, one invocation per behaviour.                                 *)
(*                                                                         *)
(* JavaScript values: a string is a sequence of one-character strings (a   *)
(* base64 string a sequence of sextets), so "" is <<>>; a property that    *)
(* may be absent is Undefined or Some(v). Requests carry a JSON object as  *)
(* body whose properties, when present, have the types of the data model.  *)
(***************************************************************************)
EXTENDS Integers, Sequences, FiniteSets, TLC

\* ---------------------------------------------------------------- bounds
MaxTicks == 2
MaxEmailLen == 5
MaxAttach == 3
MaxNameLen == 4
MaxTextLen == 6

\* ------------------------------------------------------- JavaScript values
Undefined == <<>>
Some(v) == <<v>>

\* !v is false: v is present and is not the empty string
Truthy(v) == v # Undefined /\ v[1] # <<>>

\* ------------------------------------------------------------ pure helpers
\* \s of the regular expression
IsSpace(c) == c \in {" ", "\t", "\n"}

\* [^\s] in place of [^\s@]
IsEmailChar_AllowsAt(c) == ~IsSpace(c)

\* [^\s@]
IsEmailChar(c) == ~IsSpace(c) /\ c # "@"

\* one step of the automaton of /^[^\s@]+@[^\s@]+\.[^\s@]+$/ :
\* 0 start, 1 in local part, 2 after "@", 3 in domain, 4 after the dot, 5 in tld
EmailStep(S, c) ==
    {1 : q \in {s \in S : s \in {0, 1} /\ IsEmailChar(c)}}
    \cup {2 : q \in {s \in S : s = 1 /\ c = "@"}}
    \cup {3 : q \in {s \in S : s \in {2, 3} /\ IsEmailChar(c)}}
    \cup {4 : q \in {s \in S : s = 3 /\ c = "."}}
    \cup {5 : q \in {s \in S : s \in {4, 5} /\ IsEmailChar(c)}}

RECURSIVE EmailRun(_, _, _)
EmailRun(S, str, i) ==
    IF i > Len(str) THEN S ELSE EmailRun(EmailStep(S, str[i]), str, i + 1)

\* emailRegex.test(str)
EmailRegexTest(str) == 5 \in EmailRun({0}, str, 1)

\* Buffer.from(content, 'base64'): four sextets give three bytes, a rest of
\* three gives two bytes, of two gives one, of one gives none
RECURSIVE Base64Decode(_)
Base64Decode(s) ==
    IF Len(s) >= 4
    THEN LET n == ((s[1] * 64 + s[2]) * 64 + s[3]) * 64 + s[4]
         IN  <<n \div 65536, (n \div 256) % 256, n % 256>>
             \o Base64Decode(SubSeq(s, 5, Len(s)))
    ELSE IF Len(s) = 3
    THEN LET n == (s[1] * 64 + s[2]) * 64 + s[3]
         IN  <<n \div 1024, (n \div 4) % 256>>
    ELSE IF Len(s) = 2
    THEN <<(s[1] * 64 + s[2]) \div 16>>
    ELSE <<>>

\* the loop stops at the first entry without content or filename
RECURSIVE DecodeEntries_Break(_)
DecodeEntries_Break(files) ==
    IF files = <<>> THEN <<>>
    ELSE LET file == Head(files)
         IN  IF Truthy(file.content) /\ Truthy(file.filename)
             THEN <<[filename |-> file.filename[1],
                     content |-> Base64Decode(file.content[1])]>>
                  \o DecodeEntries_Break(Tail(files))
             ELSE <<>>

\* the loop over data.attachments: entries with content and filename are
\* pushed, decoded, in input order
RECURSIVE DecodeEntries(_)
DecodeEntries(files) ==
    IF files = <<>> THEN <<>>
    ELSE LET file == Head(files)
         IN  (IF Truthy(file.content) /\ Truthy(file.filename)
              THEN <<[filename |-> file.filename[1],
                      content |-> Base64Decode(file.content[1])]>>
              ELSE <<>>)
             \o DecodeEntries(Tail(files))

\* data.attachments && Array.isArray(data.attachments)
DecodeAttachments(attachments) ==
    IF attachments # Undefined /\ attachments[1].isArray
    THEN DecodeEntries(attachments[1].items)
    ELSE <<>>

\* the check without the phone
MissingRequired_NoPhone(data) ==
    ~Truthy(data.fullname) \/ ~Truthy(data.email)

\* !data.fullname || !data.email || !data.phone
MissingRequired(data) ==
    ~Truthy(data.fullname) \/ ~Truthy(data.email) \/ ~Truthy(data.phone)

\* the character of a decimal digit
DigitChar(d) == <<"0", "1", "2", "3", "4", "5", "6", "7", "8", "9">>[d + 1]

\* Number.prototype.toString of a non-negative integer
RECURSIVE DecimalString(_)
DecimalString(n) ==
    IF n < 10 THEN <<DigitChar(n)>>
    ELSE DecimalString(n \div 10) \o <<DigitChar(n % 10)>>

\* Date.now().toString(): the digits of hi * 10^6 + lo, hi > 0
NowToString(now) ==
    LET low == DecimalString(now.lo)
    IN  DecimalString(now.hi) \o [i \in 1..(6 - Len(low)) |-> "0"] \o low

\* str.slice(-n)
SliceLast(str, n) ==
    IF Len(str) <= n THEN str ELSE SubSeq(str, Len(str) - n + 1, Len(str))

\* one digit more is kept
LastSixDigits_Seven(now) == SliceLast(NowToString(now), 7)

\* Date.now().toString().slice(-6)
LastSixDigits(now) == SliceLast(NowToString(now), 6)

\* `PMT-${Date.now().toString().slice(-6)}`
JobRefOf(now) == <<"PMT-">> \o LastSixDigits(now)

\* new Date().toISOString().replace(/[:.]/g, '-'), one string per millisecond
TimestampOf(now) == <<"iso">> \o NowToString(now)

\* `job-sheets/${jobRef}-${timestamp}.pdf`
PdfFileNameOf(ref, ts) == <<"job-sheets/">> \o ref \o <<"-">> \o ts \o <<".pdf">>

\* getPublicUrl(pdfFileName).publicUrl
PublicUrlOf(path) == <<"https://storage/piano-quotes/">> \o path

\* data.pickup_steps.toString() or data.delivery_steps.toString() throws
RenderThrows(data) ==
    data.pickup_steps = Undefined \/ data.delivery_steps = Undefined

\* ---- the layout of the job sheet; lengths in hundredths of a point
\* size: 'A4' is 595.28 x 841.89 points
PageHeight == 84189

\* let yPos = 130
HeaderEnd == 13000

\* the heading, its underline and the four rows of CUSTOMER DETAILS, then
\* the separator
CursorAfterCustomer == HeaderEnd + 500 + 1500 + 4 * 1800 + 1000 + 2000

\* heading, underline and the 80-point box of a location section
LocationAdvance == 500 + 2000 + 9500

\* yPos after PICKUP LOCATION and DELIVERY LOCATION
CursorAfterLocations == CursorAfterCustomer + 2 * LocationAdvance

\* data.specialrequirements, undefined when the body has no such property
SpecialRequirements(data) ==
    IF "specialrequirements" \in DOMAIN data THEN data.specialrequirements
    ELSE Undefined

\* the characters that fit the width of the box: the text wraps after them
CharsPerLine == 2

\* one line of Helvetica-Bold at 12 points (14.28) plus lineGap: 4
LineHeight == 1828

\* the lines text is laid out on, col characters being on the current line
RECURSIVE WrapLines(_, _)
WrapLines(text, col) ==
    IF text = <<>> THEN 1
    ELSE IF Head(text) = "\n" THEN 1 + WrapLines(Tail(text), 0)
    ELSE IF col = CharsPerLine THEN 1 + WrapLines(Tail(text), 1)
    ELSE WrapLines(Tail(text), col + 1)

\* doc.heightOfString(text, { width, lineGap: 4 })
HeightOfString(text) == WrapLines(text, 0) * LineHeight

\* Math.max(80, doc.heightOfString(...) + 24)
TextHeight(text) ==
    IF HeightOfString(text) + 2400 > 8000 THEN HeightOfString(text) + 2400
    ELSE 8000

\* the top of the special-requirements box
SpecialBoxTop == CursorAfterLocations + 500 + 2000

\* the heading's space is taken also when there is nothing to draw
NotesStart_ReservesHeading(data) ==
    IF Truthy(SpecialRequirements(data))
    THEN SpecialBoxTop + TextHeight(SpecialRequirements(data)[1]) + 1500
    ELSE SpecialBoxTop

\* yPos at NOTES / QUOTE: after the special-requirements section if there
\* is one
NotesStart(data) ==
    IF Truthy(SpecialRequirements(data))
    THEN SpecialBoxTop + TextHeight(SpecialRequirements(data)[1]) + 1500
    ELSE CursorAfterLocations

\* what is drawn where: the special-requirements box if any, the notes
\* box, the signature labels and lines, the footer box
Layout(data) ==
    [special |-> IF Truthy(SpecialRequirements(data))
                 THEN Some([top |-> SpecialBoxTop,
                            height |-> TextHeight(SpecialRequirements(data)[1])])
                 ELSE Undefined,
     notesY |-> NotesStart(data),
     notesBox |-> [top |-> NotesStart(data) + 500 + 2000, height |-> 10000],
     sigY |-> NotesStart(data) + 500 + 2000 + 11500,
     sigLineY |-> NotesStart(data) + 500 + 2000 + 11500 + 5000,
     footer |-> [top |-> PageHeight - 7000, height |-> 5000]]

\* the document generateJobSheetPDF resolves with: the reference, the date
\* (a coarser reading of the clock than the millisecond), the fields drawn
\* and where the sections are
JobSheetPDF(data, ref, today) ==
    [ref |-> ref, date |-> today.hi, fullname |-> data.fullname[1],
     pickup_steps |-> data.pickup_steps[1],
     delivery_steps |-> data.delivery_steps[1],
     layout |-> Layout(data)]

\* the message of the TypeError thrown by undefined.toString()
RenderErrorMessage == "Cannot read properties of undefined (reading 'toString')"

\* data.fullname.toLowerCase(), character by character
UpperCase == <<"A", "B", "C", "D", "E", "F", "G", "H", "I", "J", "K", "L", "M",
               "N", "O", "P", "Q", "R", "S", "T", "U", "V", "W", "X", "Y", "Z">>

LowerCase == <<"a", "b", "c", "d", "e", "f", "g", "h", "i", "j", "k", "l", "m",
               "n", "o", "p", "q", "r", "s", "t", "u", "v", "w", "x", "y", "z">>

Digits == {"0", "1", "2", "3", "4", "5", "6", "7", "8", "9"}

ToLowerChar(c) ==
    IF \E i \in 1..26 : UpperCase[i] = c
    THEN LowerCase[CHOOSE i \in 1..26 : UpperCase[i] = c]
    ELSE c

ToLowerCase(str) == [i \in 1..Len(str) |-> ToLowerChar(str[i])]

\* [a-z0-9]
IsSlugChar(c) == c \in Digits \/ \E i \in 1..26 : LowerCase[i] = c

\* .replace(/[^a-z0-9]/g, '-')
ReplaceNonAlnum(str) ==
    [i \in 1..Len(str) |-> IF IsSlugChar(str[i]) THEN str[i] ELSE "-"]

\* .replace(/-+/g, '-')
RECURSIVE CollapseHyphens(_)
CollapseHyphens(str) ==
    IF Len(str) <= 1 THEN str
    ELSE IF str[1] = "-" /\ str[2] = "-" THEN CollapseHyphens(Tail(str))
    ELSE <<str[1]>> \o CollapseHyphens(Tail(str))

\* only a leading hyphen is removed
TrimHyphens_Leading(str) ==
    IF str # <<>> /\ str[1] = "-" THEN Tail(str) ELSE str

\* .replace(/^-|-$/g, ''): one leading and one trailing hyphen are removed
TrimHyphens(str) ==
    LET a == IF str # <<>> /\ str[1] = "-" THEN Tail(str) ELSE str
    IN  IF a # <<>> /\ a[Len(a)] = "-" THEN SubSeq(a, 1, Len(a) - 1) ELSE a

SlugOf(fullname) ==
    TrimHyphens(CollapseHyphens(ReplaceNonAlnum(ToLowerCase(fullname))))

\* the thread identifier also carries the time it was made
ThreadIdOf_PerMessage(slug) ==
    <<"<quote-">> \o slug \o <<"-", "now", "@pianomoveteam.co.uk>">>

\* `<quote-${slug}@pianomoveteam.co.uk>`
ThreadIdOf(slug) == <<"<quote-">> \o slug \o <<"@pianomoveteam.co.uk>">>

\* --------------------------------------------------------------- the state
VARIABLES
    revision,             \* "pdf": api/quote.js:622, "email": the earlier handler
    req,                  \* the request: method and body
    pc,                   \* the handler's position
    clock,                \* the wall clock in ms, as hi * 10^6 + lo
    ticks,                \* how often the clock has advanced
    customerAttachments,  \* decoded attachments
    jobRef, timestamp, pdfBuffer, pdfPublicUrl, emailData,
    calls,                \* the external calls issued, in order, with outcome
    storage,              \* the object store: the document held at each path
    rows,                 \* the quotes table
    log,                  \* console.log / console.error
    resHeaders,           \* res.setHeader
    responses             \* the responses written

locals == <<customerAttachments, jobRef, timestamp, pdfBuffer, pdfPublicUrl, emailData>>
stores == <<storage, rows>>
vars == <<revision, req, pc, clock, ticks, locals, calls, stores, log,
          resHeaders, responses>>

\* ------------------------------------------------------------------ inputs
Revisions == {"pdf", "email"}
Methods == {"POST", "OPTIONS", "GET"}

JaneDoe == <<"J", "a", "n", "e", " ", "D", "o", "e">>
FullNames == {Undefined, Some(<<>>), Some(JaneDoe)}
Phones == {Undefined, Some(<<>>), Some(<<"0", "7", "7">>)}
PickupSteps == {Undefined, Some(3)}
DeliverySteps == {Undefined, Some(0)}

GoodEmail == <<"a", "@", "b", ".", "c">>
Emails == {Undefined, Some(<<>>), Some(GoodEmail), Some(<<"a", "@", "b">>),
           Some(<<"a", " ", "@", "b", ".", "c">>)}

Photo1 == [filename |-> Some(<<"1", ".", "j", "p", "g">>), content |-> Some(<<16, 20, 9, 3>>)]
Photo2 == [filename |-> Some(<<"2", ".", "j", "p", "g">>), content |-> Some(<<16, 20>>)]
NoFilename == [filename |-> Undefined, content |-> Some(<<16, 20, 9, 3>>)]
NoContent == [filename |-> Some(<<"3", ".", "j", "p", "g">>), content |-> Undefined]

ArrayOf(items) == Some([isArray |-> TRUE, items |-> items])
NotAnArray == Some([isArray |-> FALSE, items |-> <<>>])
AttachmentLists == {Undefined, NotAnArray, ArrayOf(<<>>), ArrayOf(<<Photo1>>),
                    ArrayOf(<<NoFilename, Photo2>>)}

StartClocks == {[hi |-> 1700000, lo |-> 999998], [hi |-> 1700001, lo |-> 123456]}

Bodies(names, emails, phones, pickups, deliveries, attachments) ==
    [fullname : names, email : emails, phone : phones,
     pickup_steps : pickups, delivery_steps : deliveries,
     attachments : attachments]

NoBody == [error |-> Undefined, required |-> Undefined, success |-> Undefined,
           message |-> Undefined, emailId |-> Undefined, pdfUrl |-> Undefined,
           jobRef |-> Undefined, attachments |-> Undefined]

\* the bucket before any upload
EmptyStore == [path \in {} |-> <<>>]

\* the bucket after an accepted upload
Put(store, path, content) ==
    [p \in DOMAIN store \cup {path} |-> IF p = path THEN content ELSE store[p]]

\* the object store takes an upload to a path it already holds only as upsert
StoreAccepts(store, args) == args.upsert \/ args.path \notin DOMAIN store

InitWith(revs, methods, bodies, clocks, buckets) ==
    /\ revision \in revs
    /\ req \in [method : methods, body : bodies]
    /\ pc = "route"
    /\ clock \in clocks
    /\ ticks = 0
    /\ customerAttachments = <<>>
    /\ jobRef = Undefined
    /\ timestamp = Undefined
    /\ pdfBuffer = Undefined
    /\ pdfPublicUrl = Undefined
    /\ emailData = Undefined
    /\ calls = <<>>
    /\ storage \in buckets
    /\ rows = <<>>
    /\ log = <<>>
    /\ resHeaders = {}
    /\ responses = <<>>

Init ==
    InitWith(Revisions, Methods,
             Bodies(FullNames, Emails, Phones, PickupSteps, DeliverySteps,
                    AttachmentLists),
             StartClocks, {EmptyStore})

\* ----------------------------------------------------- handler building blocks
Json(status, body) == [status |-> status, body |-> body]

ErrorBody(message) == [NoBody EXCEPT !.error = Some(message)]

\* the description carried by a failure of an external call
FailureMessage(op, outcome) ==
    CASE op = "upload" /\ outcome = "error" -> "storage: upload refused"
      [] op = "upload" /\ outcome = "throw" -> "storage: request failed"
      [] op = "insert" /\ outcome = "error" -> "database: insert refused"
      [] op = "insert" /\ outcome = "throw" -> "database: request failed"
      [] op = "send_internal" /\ outcome = "error" -> "email: internal send refused"
      [] op = "send_internal" /\ outcome = "throw" -> "email: internal request failed"
      [] op = "send_customer" /\ outcome = "error" -> "email: customer send refused"
      [] op = "send_customer" /\ outcome = "throw" -> "email: customer request failed"

Outcomes == {"ok", "error", "throw"}

\* data.id of a send that resend accepted
MessageId(op) ==
    IF op = "send_internal" THEN "internal-id" ELSE "customer-id"

\* an await: the call is issued and the handler suspends
Issue(op, args) ==
    calls' = Append(calls, [op |-> op, args |-> args, outcome |-> "pending"])

\* the awaited call settles
Settle(outcome) ==
    calls' = [calls EXCEPT ![Len(calls)].outcome = outcome]

\* the catch logs the error and sends nothing
Catch_Silent(entries, message) ==
    /\ log' = log \o entries \o <<"API error">>
    /\ responses' = responses
    /\ pc' = "done"

\* catch (error): console.error, res.status(500).json({ error: error.message })
Catch(entries, message) ==
    /\ log' = log \o entries \o <<"API error">>
    /\ responses' = Append(responses, Json(500, ErrorBody(message)))
    /\ pc' = "done"

\* the clock advances by one millisecond
Advance(now) ==
    IF now.lo = 999999 THEN [hi |-> now.hi + 1, lo |-> 0]
    ELSE [hi |-> now.hi, lo |-> now.lo + 1]

\* the rendered document comes first
AllAttachments_PdfFirst ==
    <<[filename |-> <<"Job-Sheet-">> \o jobRef[1] \o <<".pdf">>,
       content |-> pdfBuffer[1]]>>
    \o customerAttachments

\* the attachment list of the internal email: customer photos + PDF
AllAttachments ==
    customerAttachments
    \o <<[filename |-> <<"Job-Sheet-">> \o jobRef[1] \o <<".pdf">>,
          content |-> pdfBuffer[1]]>>

\* the row inserted into quotes
QuoteRow ==
    [job_ref |-> jobRef[1],
     customer_name |-> req.body.fullname[1],
     customer_email |-> req.body.email[1],
     customer_phone |-> req.body.phone[1],
     pickup_steps |-> req.body.pickup_steps,
     delivery_steps |-> req.body.delivery_steps,
     pdf_url |-> pdfPublicUrl[1],
     attachments_count |-> Len(customerAttachments),
     created_at |-> TimestampOf(clock)]

\* the ' (n photos)' part of the subject
PhotosSuffix ==
    IF Len(customerAttachments) > 0
    THEN <<" (">> \o DecimalString(Len(customerAttachments)) \o <<" photos)">>
    ELSE <<>>

\* the internal notification, as passed to resend.emails.send
InternalEmail ==
    LET slug == SlugOf(req.body.fullname[1])
    IN  [from |-> "Piano Quote <quotes@pianomoveteam.co.uk>",
         to |-> <<"thenorthpiano@googlemail.com">>,
         cc |-> <<"gogoo.ltd@gmail.com">>,
         replyTo |-> req.body.email[1],
         subject |-> IF revision = "pdf"
                     THEN <<"Piano Quote - ">> \o req.body.fullname[1]
                          \o PhotosSuffix \o <<" + PDF">>
                     ELSE <<"Piano Moving Quote - ">> \o req.body.fullname[1]
                          \o PhotosSuffix,
         html |-> [attachCount |-> Len(customerAttachments),
                   jobRef |-> jobRef, pdfUrl |-> pdfPublicUrl],
         attachments |-> IF revision = "pdf" THEN AllAttachments
                         ELSE customerAttachments,
         headers |-> [References |-> ThreadIdOf(slug),
                      InReplyTo |-> ThreadIdOf(slug),
                      XEntityRefID |-> <<"customer-">> \o slug]]

\* the customer acknowledgement, as passed to resend.emails.send
CustomerEmail ==
    [from |-> "Piano Move Team <noreply@pianomoveteam.co.uk>",
     to |-> <<req.body.email[1]>>,
     subject |-> "Thank you for your piano moving quote request",
     attachments |-> <<>>]

\* the body of the success response
SuccessBody ==
    IF revision = "pdf"
    THEN [NoBody EXCEPT !.success = Some(TRUE),
                        !.message = Some("Quote sent successfully"),
                        !.emailId = emailData,
                        !.pdfUrl = pdfPublicUrl,
                        !.jobRef = jobRef,
                        !.attachments = Some(Len(AllAttachments))]
    ELSE [NoBody EXCEPT !.success = Some(TRUE),
                        !.message = Some("Quote sent"),
                        !.emailId = emailData,
                        !.attachments = Some(Len(customerAttachments))]

\* ----------------------------------------------------------------- actions
\* every method is let through to validation
Route_AnyMethod ==
    /\ pc = "route"
    /\ resHeaders' = {<<"Access-Control-Allow-Origin", "*">>,
                      <<"Access-Control-Allow-Methods", "POST, OPTIONS">>,
                      <<"Access-Control-Allow-Headers", "Content-Type">>}
    /\ responses' = responses
    /\ pc' = "validate"
    /\ UNCHANGED <<revision, req, clock, ticks, locals, calls, stores, log>>

\* CORS headers and method routing
Route ==
    /\ pc = "route"
    /\ resHeaders' = {<<"Access-Control-Allow-Origin", "*">>,
                      <<"Access-Control-Allow-Methods", "POST, OPTIONS">>,
                      <<"Access-Control-Allow-Headers", "Content-Type">>}
    /\ IF req.method = "OPTIONS"
       THEN /\ responses' = Append(responses, Json(200, NoBody))
            /\ pc' = "done"
       ELSE IF req.method # "POST"
       THEN /\ responses' = Append(responses, Json(405, ErrorBody("Method not allowed")))
            /\ pc' = "done"
       ELSE /\ responses' = responses
            /\ pc' = "validate"
    /\ UNCHANGED <<revision, req, clock, ticks, locals, calls, stores, log>>

\* required fields, then the email format
Validate ==
    /\ pc = "validate"
    /\ IF MissingRequired(req.body)
       THEN /\ responses' = Append(responses,
                 Json(400, [ErrorBody("Missing required fields") EXCEPT
                            !.required = Some(<<"fullname", "email", "phone">>)]))
            /\ pc' = "done"
       ELSE IF ~EmailRegexTest(req.body.email[1])
       THEN /\ responses' = Append(responses, Json(400, ErrorBody("Invalid email format")))
            /\ pc' = "done"
       ELSE /\ responses' = responses
            /\ pc' = "decode"
    /\ UNCHANGED <<revision, req, clock, ticks, locals, calls, stores, log, resHeaders>>

\* Process customer attachments
Decode ==
    /\ pc = "decode"
    /\ customerAttachments' = DecodeAttachments(req.body.attachments)
    /\ IF revision = "pdf"
       THEN /\ pc' = "jobref"
            /\ log' = log
       ELSE /\ pc' = "send_internal"
            /\ log' = Append(log, "Quote from")
    /\ UNCHANGED <<revision, req, clock, ticks, jobRef, timestamp, pdfBuffer,
                   pdfPublicUrl, emailData, calls, stores, resHeaders, responses>>

\* const jobRef = `PMT-${Date.now().toString().slice(-6)}`
DeriveJobRef ==
    /\ pc = "jobref"
    /\ jobRef' = Some(JobRefOf(clock))
    /\ pc' = "timestamp"
    /\ UNCHANGED <<revision, req, clock, ticks, customerAttachments, timestamp,
                   pdfBuffer, pdfPublicUrl, emailData, calls, stores, log,
                   resHeaders, responses>>

\* const timestamp = new Date().toISOString().replace(/[:.]/g, '-')
DeriveTimestamp ==
    /\ pc = "timestamp"
    /\ timestamp' = Some(TimestampOf(clock))
    /\ log' = Append(log, "Generating PDF")
    /\ pc' = "render"
    /\ UNCHANGED <<revision, req, clock, ticks, customerAttachments, jobRef,
                   pdfBuffer, pdfPublicUrl, emailData, calls, stores,
                   resHeaders, responses>>

\* a failed render resolves with an empty document instead of rejecting
Render_SwallowsError ==
    /\ pc = "render"
    /\ pdfBuffer' = IF RenderThrows(req.body) THEN Some([ref |-> jobRef[1]])
                    ELSE Some(JobSheetPDF(req.body, jobRef[1], clock))
    /\ pc' = "upload"
    /\ UNCHANGED <<revision, req, clock, ticks, customerAttachments, jobRef,
                   timestamp, pdfPublicUrl, emailData, calls, stores, log,
                   resHeaders, responses>>

\* const pdfBuffer = await generateJobSheetPDF(data, jobRef)
Render ==
    /\ pc = "render"
    /\ IF RenderThrows(req.body)
       THEN /\ Catch(<<>>, RenderErrorMessage)
            /\ pdfBuffer' = pdfBuffer
       ELSE /\ pdfBuffer' = Some(JobSheetPDF(req.body, jobRef[1], clock))
            /\ pc' = "upload"
            /\ UNCHANGED <<log, responses>>
    /\ UNCHANGED <<revision, req, clock, ticks, customerAttachments, jobRef,
                   timestamp, pdfPublicUrl, emailData, calls, stores, resHeaders>>

\* the upload may replace a stored document
UploadUpsert_Overwrites == TRUE

\* upsert: false
UploadUpsert == FALSE

\* await supabase.storage.from('piano-quotes').upload(pdfFileName, pdfBuffer, ...)
UploadCall ==
    /\ pc = "upload"
    /\ Issue("upload", [path |-> PdfFileNameOf(jobRef[1], timestamp[1]),
                        content |-> pdfBuffer[1],
                        contentType |-> "application/pdf",
                        upsert |-> UploadUpsert])
    /\ pc' = "await_upload"
    /\ UNCHANGED <<revision, req, clock, ticks, locals, stores, log,
                   resHeaders, responses>>

\* the upload's error is not looked at
UploadError_Ignored(outcome) == FALSE

\* if (uploadError)
UploadError(outcome) == outcome = "error"

\* the upload settles: uploadError throws, otherwise the public URL is taken
UploadSettle ==
    /\ pc = "await_upload"
    /\ \E outcome \in Outcomes :
        LET args == calls[Len(calls)].args
            path == args.path
        IN  /\ outcome = "ok" => StoreAccepts(storage, args)
            /\ Settle(outcome)
            /\ storage' = IF outcome = "ok" THEN Put(storage, path, args.content)
                           ELSE storage
            /\ IF outcome = "throw"
               THEN /\ Catch(<<>>, FailureMessage("upload", "throw"))
                    /\ pdfPublicUrl' = pdfPublicUrl
               ELSE IF UploadError(outcome)
               THEN /\ Catch(<<"Supabase upload error">>, "Failed to upload PDF to storage")
                    /\ pdfPublicUrl' = pdfPublicUrl
               ELSE /\ pdfPublicUrl' = Some(PublicUrlOf(path))
                    /\ log' = Append(log, "PDF uploaded to Supabase")
                    /\ pc' = "insert"
                    /\ responses' = responses
    /\ UNCHANGED <<revision, req, clock, ticks, customerAttachments, jobRef,
                   timestamp, pdfBuffer, emailData, rows, resHeaders>>

\* the insert is issued without await
InsertCall_NoAwait ==
    /\ pc = "insert"
    /\ Issue("insert", QuoteRow)
    /\ pc' = "send_internal"
    /\ UNCHANGED <<revision, req, clock, ticks, locals, stores, log,
                   resHeaders, responses>>

\* await supabase.from('quotes').insert({...})
InsertCall ==
    /\ pc = "insert"
    /\ Issue("insert", QuoteRow)
    /\ pc' = "await_insert"
    /\ UNCHANGED <<revision, req, clock, ticks, locals, stores, log,
                   resHeaders, responses>>

\* the insert settles: its result is not looked at
InsertSettle ==
    /\ pc = "await_insert"
    /\ \E outcome \in Outcomes :
        /\ Settle(outcome)
        /\ rows' = IF outcome = "ok" THEN Append(rows, calls[Len(calls)].args) ELSE rows
        /\ IF outcome = "throw"
           THEN Catch(<<>>, FailureMessage("insert", "throw"))
           ELSE /\ pc' = "send_internal"
                /\ UNCHANGED <<log, responses>>
    /\ UNCHANGED <<revision, req, clock, ticks, locals, storage, resHeaders>>

\* await resend.emails.send({...}) to the business
InternalCall ==
    /\ pc = "send_internal"
    /\ Issue("send_internal", InternalEmail)
    /\ pc' = "await_internal"
    /\ UNCHANGED <<revision, req, clock, ticks, locals, stores, log,
                   resHeaders, responses>>

\* the send's error is not looked at
EmailError_Ignored(outcome) == FALSE

\* if (emailError)
EmailError(outcome) == outcome = "error"

\* the internal send settles: emailError answers 500
InternalSettle ==
    /\ pc = "await_internal"
    /\ \E outcome \in Outcomes :
        /\ Settle(outcome)
        /\ IF outcome = "throw"
           THEN /\ Catch(<<>>, FailureMessage("send_internal", "throw"))
                /\ emailData' = emailData
           ELSE IF EmailError(outcome)
           THEN /\ log' = Append(log, "Resend error")
                /\ responses' = Append(responses,
                       Json(500, ErrorBody(FailureMessage("send_internal", "error"))))
                /\ pc' = "done"
                /\ emailData' = emailData
           ELSE /\ emailData' = IF outcome = "ok" THEN Some(MessageId("send_internal")) ELSE Undefined
                /\ log' = Append(log, "Email sent")
                /\ pc' = "send_customer"
                /\ responses' = responses
    /\ UNCHANGED <<revision, req, clock, ticks, customerAttachments, jobRef,
                   timestamp, pdfBuffer, pdfPublicUrl, stores, resHeaders>>

\* await resend.emails.send({...}) to the customer
CustomerCall ==
    /\ pc = "send_customer"
    /\ Issue("send_customer", CustomerEmail)
    /\ pc' = "await_customer"
    /\ UNCHANGED <<revision, req, clock, ticks, locals, stores, log,
                   resHeaders, responses>>

\* a refused customer send is attempted again
CustomerSettle_Retry ==
    /\ pc = "await_customer"
    /\ \E outcome \in Outcomes :
        /\ Settle(outcome)
        /\ IF outcome = "throw"
           THEN Catch(<<>>, FailureMessage("send_customer", "throw"))
           ELSE IF outcome = "error"
           THEN /\ pc' = "send_customer"
                /\ UNCHANGED <<log, responses>>
           ELSE /\ log' = Append(log, "Auto-response sent")
                /\ responses' = Append(responses, Json(200, SuccessBody))
                /\ pc' = "done"
    /\ UNCHANGED <<revision, req, clock, ticks, locals, stores, resHeaders>>

\* the customer send settles: its result is not looked at
CustomerSettle ==
    /\ pc = "await_customer"
    /\ \E outcome \in Outcomes :
        /\ Settle(outcome)
        /\ IF outcome = "throw"
           THEN Catch(<<>>, FailureMessage("send_customer", "throw"))
           ELSE /\ log' = Append(log, "Auto-response sent")
                /\ responses' = Append(responses, Json(200, SuccessBody))
                /\ pc' = "done"
    /\ UNCHANGED <<revision, req, clock, ticks, locals, stores, resHeaders>>

\* time passes while the handler runs
Tick ==
    /\ pc # "done"
    /\ ticks < MaxTicks
    /\ clock' = Advance(clock)
    /\ ticks' = ticks + 1
    /\ UNCHANGED <<revision, req, pc, locals, calls, stores, log, resHeaders,
                   responses>>

Next ==
    \/ Route
    \/ Validate
    \/ Decode
    \/ DeriveJobRef
    \/ DeriveTimestamp
    \/ Render
    \/ UploadCall
    \/ UploadSettle
    \/ InsertCall
    \/ InsertSettle
    \/ InternalCall
    \/ InternalSettle
    \/ CustomerCall
    \/ CustomerSettle
    \/ Tick

Spec == Init /\ [][Next]_vars

\* ------------------------------------------- inputs of the pure-function checks
EmailAlphabet == {"a", "@", ".", " "}
EmailStrings == UNION {[1..n -> EmailAlphabet] : n \in 0..MaxEmailLen}

\* every email string up to MaxEmailLen, in an otherwise complete request
InitEmail ==
    InitWith(Revisions, {"POST"},
             Bodies({Some(JaneDoe)}, {Some(e) : e \in EmailStrings},
                    {Some(<<"0", "7", "7">>)}, {Some(3)}, {Some(0)}, {Undefined}),
             {[hi |-> 1700000, lo |-> 999998]}, {EmptyStore})

SpecEmail == InitEmail /\ [][Next]_vars

EmptyFilename == [filename |-> Some(<<>>), content |-> Some(<<16, 20, 9, 3>>)]
EmptyContent == [filename |-> Some(<<"4", ".", "j", "p", "g">>), content |-> Some(<<>>)]
AttachmentKinds == {Photo1, Photo2, NoFilename, NoContent, EmptyFilename, EmptyContent}
AttachmentSeqs == UNION {[1..n -> AttachmentKinds] : n \in 0..MaxAttach}

\* every attachment list up to MaxAttach, in an otherwise complete request
InitAttach ==
    InitWith(Revisions, {"POST"},
             Bodies({Some(JaneDoe)}, {Some(GoodEmail)}, {Some(<<"0", "7", "7">>)},
                    {Some(3)}, {Some(0)},
                    {Undefined, NotAnArray} \cup {ArrayOf(a) : a \in AttachmentSeqs}),
             {[hi |-> 1700000, lo |-> 999998]}, {EmptyStore})

SpecAttach == InitAttach /\ [][Next]_vars

NameAlphabet == {"B", "1", " ", "-"}
NameStrings == UNION {[1..n -> NameAlphabet] : n \in 0..MaxNameLen}

\* every fullname up to MaxNameLen, in an otherwise complete request
InitSlug ==
    InitWith(Revisions, {"POST"},
             Bodies({Some(n) : n \in NameStrings}, {Some(GoodEmail)},
                    {Some(<<"0", "7", "7">>)}, {Some(3)}, {Some(0)}, {Undefined}),
             {[hi |-> 1700000, lo |-> 999998]}, {EmptyStore})

SpecSlug == InitSlug /\ [][Next]_vars

TextAlphabet == {"x", "\n"}
TextStrings == UNION {[1..n -> TextAlphabet] : n \in 0..MaxTextLen}

\* bodies with a specialrequirements property
WithSpecial(bodies, texts) ==
    {[f \in DOMAIN b \cup {"specialrequirements"} |->
          IF f = "specialrequirements" THEN t ELSE b[f]] :
     b \in bodies, t \in texts}

\* every special-requirements text up to MaxTextLen, absent and empty
\* included, in complete requests that differ in name and step counts
InitLayout ==
    InitWith({"pdf"}, {"POST"},
             WithSpecial(Bodies({Some(JaneDoe), Some(<<"A", "l">>)},
                                {Some(GoodEmail)}, {Some(<<"0", "7", "7">>)},
                                {Some(3), Some(12)}, {Some(0)}, {Undefined}),
                         {Undefined} \cup {Some(t) : t \in TextStrings}),
             {[hi |-> 1700000, lo |-> 999998]}, {EmptyStore})

SpecLayout == InitLayout /\ [][Next]_vars

\* one request of each kind the handler tells apart
InitFair ==
    InitWith(Revisions, Methods,
             Bodies({Undefined, Some(<<"A", "l">>)},
                    {Some(GoodEmail), Some(<<"a", "@", "b">>)},
                    {Some(<<"0", "7", "7">>)}, PickupSteps, {Some(0)},
                    {Undefined, ArrayOf(<<Photo1>>)}),
             {[hi |-> 1700000, lo |-> 999998]}, {EmptyStore})

\* every awaited call settles and the runtime keeps running the handler
SpecFair == InitFair /\ [][Next]_vars /\ WF_vars(Next)

\* --------------------------------------- other submissions on the same bucket
\* the request of another submission
OtherBody ==
    [fullname |-> Some(<<"B", "o", "b">>), email |-> Some(GoodEmail),
     phone |-> Some(<<"0", "7", "7">>), pickup_steps |-> Some(1),
     delivery_steps |-> Some(1), attachments |-> Undefined]

\* the upload of a submission that read the clock at now
OtherUpload(now) ==
    LET ref == JobRefOf(now)
    IN  [path |-> PdfFileNameOf(ref, TimestampOf(now)),
         content |-> JobSheetPDF(OtherBody, ref, now),
         contentType |-> "application/pdf",
         upsert |-> UploadUpsert]

\* 10^6 milliseconds before now
Earlier(now) == [hi |-> now.hi - 1, lo |-> now.lo]

\* the bucket after a submission made 10^6 milliseconds before now
StoreAfterEarlier(now) ==
    Put(EmptyStore, OtherUpload(Earlier(now)).path, OtherUpload(Earlier(now)).content)

\* a concurrent submission that read the clock in this millisecond uploads
\* its document; the store refuses it if the path is taken
OtherSubmissionUploads ==
    /\ pc # "done"
    /\ StoreAccepts(storage, OtherUpload(clock))
    /\ storage' = Put(storage, OtherUpload(clock).path, OtherUpload(clock).content)
    /\ UNCHANGED <<revision, req, pc, clock, ticks, locals, calls, rows, log,
                   resHeaders, responses>>

InitStore ==
    InitWith({"pdf"}, {"POST"},
             Bodies({Some(JaneDoe)}, {Some(GoodEmail)}, {Some(<<"0", "7", "7">>)},
                    PickupSteps, DeliverySteps, {Undefined, ArrayOf(<<Photo1>>)}),
             StartClocks,
             {EmptyStore} \cup {StoreAfterEarlier(now) : now \in StartClocks})

NextStore == Next \/ OtherSubmissionUploads

SpecStore == InitStore /\ [][NextStore]_vars

\* --------------------------------------------------- vocabulary of the claims
IsMissingOrEmpty(v) == v = Undefined \/ v = Some(<<>>)

MissingFields ==
    {f \in {"fullname", "email", "phone"} : IsMissingOrEmpty(req.body[f])}

Range(seq) == {seq[i] : i \in 1..Len(seq)}

CallsOf(op) == {i \in 1..Len(calls) : calls[i].op = op}

Failed(op) ==
    \E i \in CallsOf(op) : calls[i].outcome \in {"error", "throw"}

NoExternalEffect == calls = <<>> /\ DOMAIN storage = {} /\ rows = <<>>

Answered(status) ==
    pc = "done" /\ Len(responses) = 1 /\ responses[1].status = status

\* local@domain.tld: one "@" after a non-empty local part, a dot after a
\* non-empty domain and before a non-empty tld, no whitespace anywhere
HasEmailShape(e) ==
    \E i, j \in 1..Len(e) :
        /\ 1 < i /\ i + 1 < j /\ j < Len(e)
        /\ e[i] = "@" /\ e[j] = "."
        /\ \A k \in 1..Len(e) : ~IsSpace(e[k]) /\ (e[k] = "@" => k = i)

\* ------------------------------------------------------------------- claims
\* C1: a POST whose fullname, email or phone is missing or empty makes no
\* external call at any point, and is answered 400 with a list of required
\* fields that names every missing one.
C1_MissingFieldsRejected ==
    (req.method = "POST" /\ MissingFields # {}) =>
        /\ NoExternalEffect
        /\ pc \in {"route", "validate", "done"}
        /\ pc = "done" =>
            /\ Answered(400)
            /\ responses[1].body.required # Undefined
            /\ MissingFields \subseteq Range(responses[1].body.required[1])

C1_Witness ==
    /\ req.method = "POST"
    /\ MissingFields = {"phone"}
    /\ Answered(400)

\* C2: a POST with fullname, email and phone present whose email has not the
\* local@domain.tld shape makes no external call, is answered 400, and the
\* response carries no document URL.
C2_BadEmailRejected ==
    (/\ req.method = "POST"
     /\ MissingFields = {}
     /\ ~HasEmailShape(req.body.email[1])) =>
        /\ NoExternalEffect
        /\ pc \in {"route", "validate", "done"}
        /\ pc = "done" =>
            /\ Answered(400)
            /\ responses[1].body.pdfUrl = Undefined

C2_Witness ==
    /\ req.method = "POST"
    /\ req.body.email = Some(<<"a", "@", "a", "a">>)
    /\ MissingFields = {}
    /\ Answered(400)

\* C3: once the storage upload has failed (error result or exception) the
\* handler is done with a 500 response, the upload is the only external call
\* made, and no row is stored.
C3_UploadFailureFatal ==
    Failed("upload") =>
        /\ Answered(500)
        /\ \A i \in 1..Len(calls) : calls[i].op = "upload"
        /\ rows = <<>>
        /\ DOMAIN storage = {}

C3_Witness ==
    /\ \E i \in CallsOf("upload") : calls[i].outcome = "error"
    /\ Answered(500)

\* C4: once the internal notification has failed (error result or exception)
\* the handler is done with a 500 response, no customer acknowledgement is
\* ever issued, and what the upload and the insert stored is still there.
C4_InternalFailureFatal ==
    Failed("send_internal") =>
        /\ Answered(500)
        /\ responses[1].body.success = Undefined
        /\ CallsOf("send_customer") = {}
        /\ \A i \in CallsOf("upload") : calls[i].args.path \in DOMAIN storage
        /\ \A i \in CallsOf("insert") :
               calls[i].outcome = "ok" => calls[i].args \in Range(rows)

C4_Witness ==
    /\ revision = "pdf"
    /\ \E i \in CallsOf("send_internal") : calls[i].outcome = "error"
    /\ \E i \in CallsOf("insert") : calls[i].outcome = "ok"
    /\ Cardinality(DOMAIN storage) = 1 /\ Len(rows) = 1
    /\ Answered(500)

Succeeded ==
    Answered(200) /\ responses[1].body.success = Some(TRUE)

\* the position of an external operation in the pipeline
Stage(op) ==
    CASE op = "upload" -> 1
      [] op = "insert" -> 2
      [] op = "send_internal" -> 3
      [] op = "send_customer" -> 4

StepsMissing ==
    req.body.pickup_steps = Undefined \/ req.body.delivery_steps = Undefined

\* the request passes validation
Accepted ==
    /\ req.method = "POST"
    /\ MissingFields = {}
    /\ HasEmailShape(req.body.email[1])

WellFormed(file) ==
    ~IsMissingOrEmpty(file.filename) /\ ~IsMissingOrEmpty(file.content)

InputItems ==
    IF req.body.attachments # Undefined /\ req.body.attachments[1].isArray
    THEN req.body.attachments[1].items
    ELSE <<>>

WellFormedAt == {i \in 1..Len(InputItems) : WellFormed(InputItems[i])}

\* the index in the input of the k-th well-formed entry
NthWellFormed(k) ==
    CHOOSE i \in WellFormedAt : Cardinality({j \in WellFormedAt : j <= i}) = k

\* C5: whenever the customer acknowledgement fails after the internal
\* notification succeeded (error result or exception), the caller still gets
\* the 200 success response and the failure is recorded in the log.
C5_AckFailureNonFatal ==
    Failed("send_customer") =>
        /\ Succeeded
        /\ \E i \in 1..Len(log) : log[i] \in {"API error", "Customer email error"}

\* C6: whenever the database insert fails (error result or exception) the
\* pipeline goes on to the internal notification, and when no email send
\* fails the acknowledgement is sent too and the caller gets the success
\* response.
C6_InsertFailureNonFatal ==
    (Failed("insert") /\ pc = "done") =>
        /\ CallsOf("send_internal") # {}
        /\ (~Failed("send_internal") /\ ~Failed("send_customer")) =>
               (CallsOf("send_customer") # {} /\ Succeeded)

\* C7: the external calls are issued in the order upload, insert, internal
\* send, customer send (in the PDF revision the i-th call is the i-th stage),
\* and a call is issued only when every earlier call has settled, so at most
\* one call is in flight.
C7_CallsInOrder ==
    /\ \A i, j \in 1..Len(calls) : i < j => Stage(calls[i].op) < Stage(calls[j].op)
    /\ revision = "pdf" => \A i \in 1..Len(calls) : Stage(calls[i].op) = i
    /\ \A i \in 1..Len(calls) : calls[i].outcome = "pending" => i = Len(calls)
    /\ Cardinality({i \in 1..Len(calls) : calls[i].outcome = "pending"}) <= 1

C7_Witness ==
    /\ revision = "pdf"
    /\ Len(calls) = 4
    /\ calls[4].outcome = "pending"

\* C8: no external operation is attempted twice in one invocation, also after
\* it failed; a success response of the PDF revision comes after exactly one
\* upload, one insert, one internal and one customer send and nothing else,
\* with one document stored and at most one row.
C8_EachCallOnce ==
    /\ \A i, j \in 1..Len(calls) : calls[i].op = calls[j].op => i = j
    /\ (Succeeded /\ revision = "pdf") =>
        /\ [i \in 1..Len(calls) |-> calls[i].op]
               = <<"upload", "insert", "send_internal", "send_customer">>
        /\ Cardinality(DOMAIN storage) = 1
        /\ Len(rows) <= 1

C8_Witness ==
    /\ revision = "pdf"
    /\ Succeeded
    /\ \E i \in CallsOf("insert") : calls[i].outcome = "error"
    /\ \E i \in CallsOf("send_customer") : calls[i].outcome = "error"

\* C9: when rendering the job sheet fails because pickup_steps or
\* delivery_steps is missing, no external call is made at any point and the
\* handler answers with an error response carrying the failure's message.
C9_RenderFailureAborts ==
    (revision = "pdf" /\ req.method = "POST" /\ StepsMissing) =>
        /\ NoExternalEffect
        /\ pdfBuffer = Undefined
        /\ (pc = "done" /\ timestamp # Undefined) =>
            /\ Answered(500)
            /\ responses[1].body.error = Some(RenderErrorMessage)

C9_Witness ==
    /\ revision = "pdf"
    /\ StepsMissing
    /\ timestamp # Undefined
    /\ Answered(500)
    /\ calls = <<>>

\* C10: once an accepted request's attachments are decoded, the decoded list
\* has one entry per well-formed input entry, in input order and with the
\* input's filename; a missing or non-array attachments value gives the empty
\* list; and malformed entries never lead to a 400 response.
C10_DecodedAttachments ==
    Accepted =>
        /\ \A i \in 1..Len(responses) : responses[i].status # 400
        /\ pc \notin {"route", "validate", "decode"} =>
            /\ Len(customerAttachments) = Cardinality(WellFormedAt)
            /\ \A k \in 1..Len(customerAttachments) :
                   customerAttachments[k].filename
                       = InputItems[NthWellFormed(k)].filename[1]
            /\ (req.body.attachments = Undefined \/ ~req.body.attachments[1].isArray)
                   => customerAttachments = <<>>

C10_Witness ==
    /\ Accepted
    /\ pc = "done"
    /\ Len(InputItems) = 3
    /\ WellFormedAt = {1, 3}
    /\ Len(customerAttachments) = 2
    /\ customerAttachments[1].filename # customerAttachments[2].filename

\* C11: on success the attachment count in the response is the number of
\* well-formed customer attachments: 2 for two well-formed entries and one
\* malformed entry, 0 for no attachments.
C11_AttachmentCountReturned ==
    Succeeded => responses[1].body.attachments = Some(Cardinality(WellFormedAt))

\* str has part as a contiguous piece
Contains(str, part) ==
    \E k \in 0..(Len(str) - Len(part)) : SubSeq(str, k + 1, k + Len(part)) = part

\* C12: the jobReference, once assigned, is never reassigned, and in the PDF
\* revision that same value appears verbatim in the storage path of the
\* document, in the subject of the business notification and in the job_ref
\* of the inserted row.
C12_JobRefRoundTrip ==
    revision = "pdf" =>
        /\ \A i \in CallsOf("upload") : Contains(calls[i].args.path, jobRef[1])
        /\ \A i \in CallsOf("insert") : calls[i].args.job_ref = jobRef[1]
        /\ \A i \in CallsOf("send_internal") :
               Contains(calls[i].args.subject, jobRef[1])


\* the email identifiers a response body carries
EmailIdsIn(body) == IF body.emailId = Undefined THEN {} ELSE {body.emailId[1]}

\* C13: a success response of the PDF handler carries success: true, a
\* message, the jobReference, the document URL, the attachment count, the
\* identifier of the internal notification and, unless the acknowledgement
\* failed, the identifier of the customer acknowledgement.
C13_SuccessSummary ==
    (Succeeded /\ revision = "pdf") =>
        LET body == responses[1].body
        IN  /\ body.message # Undefined
            /\ body.jobRef = jobRef /\ jobRef # Undefined
            /\ body.pdfUrl = pdfPublicUrl /\ pdfPublicUrl # Undefined
            /\ body.attachments # Undefined
            /\ MessageId("send_internal") \in EmailIdsIn(body)
            /\ ~Failed("send_customer") =>
                   MessageId("send_customer") \in EmailIdsIn(body)


\* C14: uploads are issued in non-overwrite mode; no step, of this submission
\* or of a concurrent one, replaces or removes a stored document; and an
\* upload whose path is already taken settles as a failure answered 500.
C14_NoOverwrite ==
    [][/\ \A i \in CallsOf("upload") : ~calls[i].args.upsert
       /\ \A p \in DOMAIN storage :
              p \in DOMAIN storage' /\ storage'[p] = storage[p]
       /\ (/\ pc = "await_upload" /\ pc' # "await_upload"
           /\ calls[Len(calls)].args.path \in DOMAIN storage) =>
              /\ calls'[Len(calls')].outcome \in {"error", "throw"}
              /\ Answered(500)']_vars

C14_Witness ==
    /\ Answered(500)
    /\ \E i \in CallsOf("upload") :
        /\ calls[i].outcome = "error"
        /\ calls[i].args.path \in DOMAIN storage
        /\ storage[calls[i].args.path] = OtherUpload(clock).content
        /\ storage[calls[i].args.path] # calls[i].args.content


\* a failure the handler does not survive: any rejection, and an error
\* result of the upload or of the internal send
Fatal(call) ==
    \/ call.outcome = "throw"
    \/ call.outcome = "error" /\ call.op \in {"upload", "send_internal"}

\* C15: whatever the request and however each external call settles, the
\* handler finishes, it has sent exactly one response when it has finished
\* and none before, the status is 200, 400, 405 or 500, and a fatal failure
\* is the last call made and is answered by that single response with 500.
C15_OneResponse ==
    /\ [](/\ Len(responses) <= 1
          /\ pc = "done" <=> Len(responses) = 1
          /\ \A i \in 1..Len(responses) :
                 responses[i].status \in {200, 400, 405, 500}
          /\ \A i \in 1..Len(calls) :
                 Fatal(calls[i]) => i = Len(calls) /\ Answered(500))
    /\ <>(pc = "done")

C15_Witness ==
    /\ Answered(500)
    /\ Len(calls) = 2
    /\ calls[2].op = "insert" /\ calls[2].outcome = "throw"


\* C16: a request whose method is not POST never reaches validation and
\* makes no external call; OPTIONS is answered 200 with an empty body and
\* Access-Control-Allow-Origin: *, any other method is answered 405 with
\* 'Method not allowed'.
C16_NonPostRouted ==
    req.method # "POST" =>
        /\ NoExternalEffect
        /\ pc \in {"route", "done"}
        /\ pc = "done" =>
            /\ <<"Access-Control-Allow-Origin", "*">> \in resHeaders
            /\ IF req.method = "OPTIONS"
               THEN Answered(200) /\ responses[1].body = NoBody
               ELSE /\ Answered(405)
                    /\ responses[1].body = ErrorBody("Method not allowed")

C16_Witness ==
    /\ req.method = "OPTIONS"
    /\ MissingFields = {}
    /\ HasEmailShape(req.body.email[1])
    /\ Answered(200)
    /\ NoExternalEffect


\* C17: a 500 response carries the description of the failure behind it:
\* the message of the error the render threw, or the description of the
\* failure of the external call that failed fatally.
C17_ErrorCarriesCause ==
    Answered(500) =>
        /\ calls = <<>> => responses[1].body.error = Some(RenderErrorMessage)
        /\ \A i \in 1..Len(calls) :
               Fatal(calls[i]) =>
                   responses[1].body.error =
                       Some(FailureMessage(calls[i].op, calls[i].outcome))


\* url is the public URL of a document this submission has stored
Stored(url) ==
    \E i \in CallsOf("upload") :
        /\ calls[i].outcome = "ok"
        /\ url = PublicUrlOf(calls[i].args.path)
        /\ calls[i].args.path \in DOMAIN storage
        /\ storage[calls[i].args.path] = calls[i].args.content

\* C18: a document URL held by the handler, written to a row, put in the
\* internal notification or returned in a response is the URL of a document
\* the upload of this submission has stored; once the upload has failed no
\* row, no notification and no response carries a document URL.
C18_UrlOnlyWhenStored ==
    /\ pdfPublicUrl # Undefined => Stored(pdfPublicUrl[1])
    /\ \A i \in CallsOf("insert") : Stored(calls[i].args.pdf_url)
    /\ \A i \in 1..Len(rows) : Stored(rows[i].pdf_url)
    /\ \A i \in CallsOf("send_internal") :
           calls[i].args.html.pdfUrl # Undefined =>
               Stored(calls[i].args.html.pdfUrl[1])
    /\ \A i \in 1..Len(responses) :
           responses[i].body.pdfUrl # Undefined =>
               Stored(responses[i].body.pdfUrl[1])
    /\ Failed("upload") =>
           /\ rows = <<>>
           /\ CallsOf("insert") = {} /\ CallsOf("send_internal") = {}
           /\ \A i \in 1..Len(responses) : responses[i].body.pdfUrl = Undefined

C18_Witness ==
    /\ Succeeded
    /\ Len(rows) = 1
    /\ responses[1].body.pdfUrl = Some(rows[1].pdf_url)
    /\ \E i \in CallsOf("send_internal") :
           calls[i].args.html.pdfUrl = responses[1].body.pdfUrl


\* the six decimal digits of n modulo 10^6, most significant first
SixDigitsOf(n) ==
    <<DigitChar((n \div 100000) % 10), DigitChar((n \div 10000) % 10),
      DigitChar((n \div 1000) % 10), DigitChar((n \div 100) % 10),
      DigitChar((n \div 10) % 10), DigitChar(n % 10)>>

\* C19: the step that assigns the jobReference sets it to "PMT-" followed by
\* the six decimal digits of the clock modulo 10^6 as read at that step, and
\* a submission that read the clock 10^6 ms earlier got the same reference.
C19_JobRefFromClock ==
    [][/\ (pc = "jobref" /\ pc' # "jobref") =>
              jobRef' = Some(<<"PMT-">> \o SixDigitsOf(clock.lo))
       /\ OtherUpload(Earlier(clock)).content.ref = JobRefOf(clock)
       /\ OtherUpload(clock).content.ref = JobRefOf(clock)]_vars

\* a submission succeeds while the bucket holds the document of another
\* submission under the same jobReference
C19_Witness ==
    /\ Succeeded
    /\ rows # <<>> /\ rows[1].job_ref = jobRef[1]
    /\ \E p \in DOMAIN storage :
        /\ storage[p].ref = jobRef[1]
        /\ storage[p].fullname = OtherBody.fullname[1]
    /\ \E p \in DOMAIN storage :
        /\ storage[p].ref = jobRef[1]
        /\ storage[p].fullname = req.body.fullname[1]


\* a-z and 0-9
AlnumChars == Digits \cup Range(LowerCase)

RECURSIVE Flatten(_)
Flatten(pieces) ==
    IF Len(pieces) = 0 THEN <<>> ELSE Head(pieces) \o Flatten(Tail(pieces))

\* what position i of low becomes when every maximal run of characters
\* outside a-z0-9 is replaced by one hyphen
RunReplacedAt(low, i) ==
    IF low[i] \in AlnumChars THEN <<low[i]>>
    ELSE IF i = 1 \/ low[i - 1] \in AlnumChars THEN <<"-">>
    ELSE <<>>

RunsReplaced(low) == Flatten([i \in 1..Len(low) |-> RunReplacedAt(low, i)])

\* the same, with the run that starts the string and the run that ends it
\* replaced by nothing
InnerRunReplacedAt(low, i) ==
    IF low[i] \in AlnumChars THEN <<low[i]>>
    ELSE IF /\ i > 1 /\ low[i - 1] \in AlnumChars
            /\ \E j \in (i + 1)..Len(low) : low[j] \in AlnumChars
    THEN <<"-">>
    ELSE <<>>

InnerRunsReplaced(low) ==
    Flatten([i \in 1..Len(low) |-> InnerRunReplacedAt(low, i)])

\* only a-z, 0-9 and "-", no two hyphens in a row, none first or last
SlugShaped(slug) ==
    /\ \A i \in 1..Len(slug) : slug[i] \in AlnumChars \cup {"-"}
    /\ \A i \in 1..(Len(slug) - 1) : ~(slug[i] = "-" /\ slug[i + 1] = "-")
    /\ Len(slug) > 0 => slug[1] # "-" /\ slug[Len(slug)] # "-"

\* the slug the i-th call carries in X-Entity-Ref-ID: `customer-${slug}`
SlugSentBy(i) == Tail(calls[i].args.headers.XEntityRefID)

\* C20 as stated: the slug sent with the internal notification has the slug
\* shape, equals the lowercased fullname with every maximal run of
\* non-alphanumeric characters replaced by one hyphen, and is its own slug.
C20_SlugRunsReplaced ==
    \A i \in CallsOf("send_internal") :
        /\ SlugShaped(SlugSentBy(i))
        /\ SlugSentBy(i) = RunsReplaced(ToLowerCase(req.body.fullname[1]))
        /\ SlugOf(SlugSentBy(i)) = SlugSentBy(i)

\* C20 amended: the slug sent with the internal notification has the slug
\* shape, equals the lowercased fullname with every maximal run of
\* non-alphanumeric characters replaced by one hyphen except that a run at
\* the start or at the end of the name is removed, and is its own slug.
C20_SlugNormalized ==
    \A i \in CallsOf("send_internal") :
        /\ SlugShaped(SlugSentBy(i))
        /\ SlugSentBy(i) = InnerRunsReplaced(ToLowerCase(req.body.fullname[1]))
        /\ SlugOf(SlugSentBy(i)) = SlugSentBy(i)
        /\ calls[i].args.headers.References = ThreadIdOf(SlugSentBy(i))

C20_Witness ==
    /\ req.body.fullname = Some(<<" ", "B", "-", "1">>)
    /\ \E i \in CallsOf("send_internal") : SlugSentBy(i) = <<"b", "-", "1">>


\* C21: in every internal notification the References and the In-Reply-To
\* header are the same value, `<quote-${slug}@pianomoveteam.co.uk>`, made of
\* the normalized fullname and of nothing else of the submission.
C21_ThreadIdPerSlug ==
    \A i \in CallsOf("send_internal") :
        /\ calls[i].args.headers.References = calls[i].args.headers.InReplyTo
        /\ calls[i].args.headers.References
               = <<"<quote-">> \o InnerRunsReplaced(ToLowerCase(req.body.fullname[1]))
                     \o <<"@pianomoveteam.co.uk>">>

C21_Witness ==
    /\ req.body.fullname = Some(<<"B", "-", " ", "1">>)
    /\ ticks > 0
    /\ \E i \in CallsOf("send_internal") :
           calls[i].args.headers.InReplyTo
               = <<"<quote-", "b", "-", "1", "@pianomoveteam.co.uk>">>


\* C22: in the PDF revision the internal notification goes to the business
\* inbox with the fixed CC and the submitter's email as reply-to, and its
\* attachments are the decoded well-formed input entries in input order
\* followed by one entry holding the rendered document; the customer
\* acknowledgement goes to the submitter's email alone, without attachments.
C22_EmailRecipientsAndAttachments ==
    /\ revision = "pdf" =>
        \A i \in CallsOf("send_internal") :
            LET mail == calls[i].args
                n == Cardinality(WellFormedAt)
            IN  /\ mail.to = <<"thenorthpiano@googlemail.com">>
                /\ mail.cc = <<"gogoo.ltd@gmail.com">>
                /\ mail.replyTo = req.body.email[1]
                /\ Len(mail.attachments) = n + 1
                /\ \A k \in 1..n :
                    /\ mail.attachments[k].filename
                           = InputItems[NthWellFormed(k)].filename[1]
                    /\ mail.attachments[k].content
                           = Base64Decode(InputItems[NthWellFormed(k)].content[1])
                /\ mail.attachments[n + 1].filename
                       = <<"Job-Sheet-">> \o jobRef[1] \o <<".pdf">>
                /\ mail.attachments[n + 1].content = pdfBuffer[1]
                /\ \E j \in CallsOf("upload") :
                       calls[j].args.content = mail.attachments[n + 1].content
    /\ \A i \in CallsOf("send_customer") :
           /\ calls[i].args.to = <<req.body.email[1]>>
           /\ calls[i].args.attachments = <<>>

C22_Witness ==
    /\ revision = "pdf"
    /\ WellFormedAt = {1, 3}
    /\ CallsOf("send_customer") # {}
    /\ \E i \in CallsOf("send_internal") : Len(calls[i].args.attachments) = 3


\* the request's special requirements are empty or absent
NoSpecialRequirements == IsMissingOrEmpty(SpecialRequirements(req.body))

\* C23: when specialrequirements is empty or absent, the rendered sheet has
\* no special-requirements box and its "Notes / Quote" section starts at
\* 492 points, whatever the name and the step counts of the request.
C23_NotesStartFixed ==
    (pdfBuffer # Undefined /\ NoSpecialRequirements) =>
        /\ pdfBuffer[1].layout.special = Undefined
        /\ pdfBuffer[1].layout.notesY = 49200
        /\ \A i \in CallsOf("upload") : calls[i].args.content.layout.notesY = 49200

C23_Witness ==
    /\ SpecialRequirements(req.body) = Some(<<>>)
    /\ req.body.fullname = Some(<<"A", "l">>)
    /\ req.body.pickup_steps = Some(12)
    /\ pdfBuffer # Undefined
    /\ CallsOf("upload") # {}


\* the tallest special-requirements box under which the notes box and the
\* signature lines still lie on the page
LargestBoxOnPage ==
    PageHeight - (SpecialBoxTop + 1500 + 2500 + 11500 + 5000)

\* C24: the special-requirements box is at least 80 points high and at most
\* the maximum that keeps the sheet on its page, is no lower than the box of
\* the same text without its last character, and the cursor advances by
\* the box height plus 15 points.
C24_BoxHeightClamped ==
    (pdfBuffer # Undefined /\ ~NoSpecialRequirements) =>
        LET box == pdfBuffer[1].layout.special[1]
            text == SpecialRequirements(req.body)[1]
        IN  /\ box.height >= 8000
            /\ box.height <= LargestBoxOnPage
            /\ TextHeight(SubSeq(text, 1, Len(text) - 1)) <= box.height
            /\ pdfBuffer[1].layout.notesY = box.top + box.height + 1500


\* the lower edge of a box
Bottom(box) == box.top + box.height

\* C25: whatever the special-requirements text, every section of the
\* rendered sheet lies within the height of the A4 page: the
\* special-requirements box, the notes box, the signature lines, the footer.
C25_SheetOnOnePage ==
    pdfBuffer # Undefined =>
        LET sheet == pdfBuffer[1].layout
        IN  /\ sheet.special # Undefined => Bottom(sheet.special[1]) <= PageHeight
            /\ Bottom(sheet.notesBox) <= PageHeight
            /\ sheet.sigLineY <= PageHeight
            /\ Bottom(sheet.footer) <= PageHeight


\* C26: the footer follows the signature block at a fixed distance: the
\* distance from the signature labels to the top of the footer box is the
\* one of the same request rendered without special requirements.
C26_FooterFollowsSignature ==
    pdfBuffer # Undefined =>
        LET sheet == pdfBuffer[1].layout
            plain == Layout([f \in DOMAIN req.body \ {"specialrequirements"} |->
                                req.body[f]])
        IN  sheet.footer.top - sheet.sigY = plain.footer.top - plain.sigY


\* C27: the rendered document is a function of the request and of the
\* jobReference alone: rendering them again, at whatever time the clock
\* shows by then, gives the document that was rendered.
C27_RenderIsPure ==
    pdfBuffer # Undefined =>
        JobSheetPDF(req.body, jobRef[1], clock) = pdfBuffer[1]


\* C30: with or without special requirements, the signature lines, drawn
\* 50 points below the signature labels, lie above the top edge of the
\* footer box.
C30_SignatureAboveFooter ==
    pdfBuffer # Undefined =>
        /\ pdfBuffer[1].layout.sigLineY = pdfBuffer[1].layout.sigY + 5000
        /\ pdfBuffer[1].layout.sigLineY < pdfBuffer[1].layout.footer.top


\* the call of op has settled without error
SettledOk(op) == \E i \in CallsOf(op) : calls[i].outcome = "ok"

\* C28: the step that produces the success response starts from a state in
\* which the internal send, and in the PDF revision the upload, has settled
\* without error and the uploaded document is in the bucket.
C28_SuccessAfterUploadAndNotification ==
    [][(responses = <<>> /\ responses' # <<>> /\ responses'[1].status = 200
        /\ responses'[1].body.success = Some(TRUE)) =>
           /\ SettledOk("send_internal")
           /\ ~Failed("send_internal") /\ ~Failed("upload")
           /\ revision = "pdf" =>
                  /\ SettledOk("upload")
                  /\ \A i \in CallsOf("upload") :
                         calls[i].args.path \in DOMAIN storage]_vars

\* a success response with no row stored and a refused acknowledgement
C28_Witness ==
    /\ Succeeded
    /\ revision = "pdf"
    /\ rows = <<>>
    /\ Failed("insert") /\ Failed("send_customer")
    /\ SettledOk("upload") /\ SettledOk("send_internal")

\* C29: a customer acknowledgement is issued only after an internal
\* notification send of the same invocation has settled without error.
C29_AckAfterNotification ==
    \A i \in CallsOf("send_customer") :
        \E j \in 1..(i - 1) :
            calls[j].op = "send_internal" /\ calls[j].outcome = "ok"

C29_Witness ==
    /\ revision = "email"
    /\ Len(calls) = 2
    /\ calls[1].op = "send_internal" /\ calls[1].outcome = "ok"
    /\ calls[2].op = "send_customer" /\ calls[2].outcome = "pending"

====
